---- MODULE Spec2Model ----
(***************************************************************************)
(* Model of intersim: the arc-state integrator and episode loop of         *)
(* InteractionSimulator (src/intersim/envs/simulator.py) and the pairwise  *)
(* collision detector (src/intersim/collisions.py).                        *)
(*                                                                         *)
(* Numbers.  A tensor element is either NaN or a number.  Numbers are      *)
(* integers of a fixed-point grid: arc positions, path coordinates and     *)
(* footprint corners are held in HALF units, so that the trapezoidal term  *)
(* 0.5*dt*(v'+v) and the half length/width of a footprint are exact;       *)
(* speeds and accelerations are in whole units per tick; angles are in     *)
(* units of pi/PI.                                                         *)
(***************************************************************************)
EXTENDS Integers, Sequences, FiniteSets, TLC

\* ------------------------------------------------------------- floats
NaN == <<>>
Num(x) == <<x>>
Val(f) == f[1]
isnan(f) == f = NaN

Max2(a, b) == IF a >= b THEN a ELSE b
Min2(a, b) == IF a <= b THEN a ELSE b

\* a + b, a * b with NaN propagation
fadd(a, b) == IF isnan(a) \/ isnan(b) THEN NaN ELSE Num(Val(a) + Val(b))
fmul(a, b) == IF isnan(a) \/ isnan(b) THEN NaN ELSE Num(Val(a) * Val(b))
\* a > b: every comparison with NaN is False
fgt(a, b) == ~isnan(a) /\ ~isnan(b) /\ Val(a) > Val(b)
fle(a, b) == ~isnan(a) /\ ~isnan(b) /\ Val(a) <= Val(b)
\* torch.clamp(a, lo, hi) and torch.clamp(a, lo, inf): NaN stays NaN
clamp(a, lo, hi) == IF isnan(a) THEN NaN ELSE Num(Max2(lo, Min2(hi, Val(a))))
clamp_min(a, lo) == IF isnan(a) THEN NaN ELSE Num(Max2(lo, Val(a)))

\* ------------------------------------------------------------- bounds
\* step calls per episode
MaxInd == 3
\* how far beyond [min_acc, max_acc] a requested acceleration may lie
ActOver == 1
\* frames of a trajectory handed to the collision routines
MaxFrames == 2
\* largest x coordinate (half units) of a pose handed to the collision routines
MaxX == 3
\* largest |psi| (angle units) handed to the heading wrap
MaxPsi == 12

\* ------------------------------------------------------------- configuration
\* The simulator is constructed with min_acc = -1 and max_acc = 1 (the
\* defaults are -10 and 10); the tick svt.dt and the start time svt.minT
MinAcc == -1
MaxAcc == 1
DT == 1
MinT == 0

\* Track data (svt) of the modelled scene: vehicle 1 drives east along y = 0
\* from x = 0, vehicle 2 drives west along y = 0 from x = 4 and enters one
\* tick later.  Arc positions and coordinates in half units.
svt_t0 == <<0, 1>>
svt_s0 == <<Num(0), Num(0)>>
svt_v0 == <<Num(1), Num(1)>>
svt_smax == <<Num(6), Num(2)>>
svt_lengths == <<2, 2>>
svt_widths == <<1, 1>>
nv == Len(svt_t0)
Veh == 1..nv

\* a requested acceleration, per vehicle
ReqAcc == {NaN} \cup {Num(a) : a \in (MinAcc - ActOver)..(MaxAcc + ActOver)}
ReqActions == [Veh -> ReqAcc]

NanState == [s |-> NaN, v |-> NaN]

VARIABLES
    state,            \* self._state: Veh -> [s, v]
    ind,              \* self._ind
    exceeded,         \* self._exceeded: Veh -> BOOLEAN
    done,             \* self.done
    stop_on_collision,\* self._stop_on_collision
    check_collisions_flag, \* self._check_collisions
    call,             \* the last call of step / reset: arguments, outcome, returns
    colcall,          \* the last call of a collision routine: arguments and result
    hcall             \* the last heading wrap: argument and result

simvars == <<state, ind, exceeded, done, stop_on_collision, check_collisions_flag, call>>
vars == <<simvars, colcall, hcall>>

\* ------------------------------------------------------------- integrator
\* self.action_space.contains(action): every component within [low, high]
action_space_contains(action) ==
    \A i \in DOMAIN action : fle(Num(MinAcc), action[i]) /\ fle(action[i], Num(MaxAcc))

\* torch.any(nns & ~nna): some vehicle with a defined arc position has a NaN action
nan_action_check_all(st, action) ==
    \A i \in DOMAIN st : ~isnan(st[i].s) /\ isnan(action[i])
nan_action_check(st, action) ==
    \E i \in DOMAIN st : ~isnan(st[i].s) /\ isnan(action[i])

\* action[~nna] = 0.
zero_nan_actions(action) ==
    [i \in DOMAIN action |-> IF isnan(action[i]) THEN Num(0) ELSE action[i]]

\* if not action_space.contains(action): action = action.clamp(min_acc, max_acc)
apply_bounds_log_only(action) == action
apply_bounds(action) ==
    IF ~action_space_contains(action)
    THEN [i \in DOMAIN action |-> clamp(action[i], MinAcc, MaxAcc)]
    ELSE action

\* nextv.clamp(0., np.inf)
nonneg_speed_unclamped(v) == v
nonneg_speed(v) == clamp_min(v, 0)

\* next_state[:,0] > smax
track_exceeded_at_end(s, smax) == ~isnan(s) /\ ~isnan(smax) /\ Val(s) >= Val(smax)
track_exceeded(s, smax) == fgt(s, smax)

\* The euler step of one vehicle: nextv = clamp(v + a*dt), s' = s + 0.5*dt*(nextv + v)
\* (s in half units, so the factor 0.5 is in the unit), exceeded = s' > smax,
\* next_state[exceeded] = nan
euler_step(sv, a, smax) ==
    LET nextv == nonneg_speed(fadd(sv.v, fmul(a, Num(DT))))
        nexts == fadd(sv.s, fmul(Num(DT), fadd(nextv, sv.v)))
        exc == track_exceeded(nexts, smax)
    IN  [next_state |-> IF exc THEN NanState ELSE [s |-> nexts, v |-> nextv],
         exceeded |-> exc]

\* _next_state(state, action) -> (next_state, action, exceeded), or raises
next_state(st, action) ==
    IF nan_action_check(st, action)
    THEN [raised |-> TRUE]
    ELSE LET a1 == apply_bounds(zero_nan_actions(action))
             out == [i \in DOMAIN st |-> euler_step(st[i], a1[i], svt_smax[i])]
         IN  [raised |-> FALSE,
              next_state |-> [i \in DOMAIN st |-> out[i].next_state],
              action |-> a1,
              exceeded |-> [i \in DOMAIN st |-> out[i].exceeded]]

\* _next_state_batch(state, action) on one batch element: no NaN check, the
\* clamp applied unconditionally
next_state_batch(st, action) ==
    LET a1 == [i \in DOMAIN action |-> clamp(action[i], MinAcc, MaxAcc)]
        out == [i \in DOMAIN st |-> euler_step(st[i], a1[i], svt_smax[i])]
    IN  [next_state |-> [i \in DOMAIN st |-> out[i].next_state],
         action |-> a1,
         exceeded |-> [i \in DOMAIN st |-> out[i].exceeded]]

\* ------------------------------------------------------------- projection
\* np.pi in angle units; a quarter turn is PI \div 2
PI == 4

\* Path polynomials of the modelled scene, highest degree first: straight
\* lines x(s) = dx*s + x0, y(s) = dy*s + y0 (coordinates in half units).
svt_xpoly == << <<1, 0>>, <<-1, 8>> >>
svt_ypoly == << <<0, 0>>, <<0, 0>> >>
svt_dxpoly == << <<1>>, <<-1>> >>
svt_dypoly == << <<0>>, <<0>> >>

\* horner_scheme(s, poly): nested multiplication, NaN in, NaN out
horner_scheme(s, poly) ==
    LET H[k \in 1..Len(poly)] ==
            IF k = 1 THEN IF isnan(s) THEN NaN ELSE Num(poly[1])
            ELSE fadd(fmul(H[k - 1], s), Num(poly[k]))
    IN  H[Len(poly)]

\* atan2(dy, dx) of an axis-parallel tangent, in [-PI, PI]
atan2(dy, dx) ==
    IF isnan(dy) \/ isnan(dx) THEN NaN
    ELSE IF Val(dx) > 0 THEN Num(0)
    ELSE IF Val(dx) < 0 THEN Num(PI)
    ELSE IF Val(dy) > 0 THEN Num(PI \div 2)
    ELSE IF Val(dy) < 0 THEN Num(0 - (PI \div 2))
    ELSE Num(0)

\* to_circle(x) = remainder(x + pi, 2*pi) - pi, the remainder non-negative
to_circle(x) == IF isnan(x) THEN NaN ELSE Num(((Val(x) + PI) % (2 * PI)) - PI)

\* ssdot_to_simstates for one vehicle: [x, y, v, psi, psidot] before the wrap
ssdot_to_simstate(sv, i) ==
    LET dx == horner_scheme(sv.s, svt_dxpoly[i])
        dy == horner_scheme(sv.s, svt_dypoly[i])
    IN  [x |-> horner_scheme(sv.s, svt_xpoly[i]),
         y |-> horner_scheme(sv.s, svt_ypoly[i]),
         v |-> IF isnan(sv.s) THEN NaN ELSE sv.v,
         psi |-> atan2(dy, dx),
         psidot |-> IF isnan(sv.s) \/ isnan(sv.v) THEN NaN ELSE Num(0)]

\* the heading written back by _project_state: projstate[...,3] = to_circle(...)
project_heading_unwrapped(psi) == psi
project_heading(psi) == to_circle(psi)

\* _project_state(state): (nv, 2) -> (nv, 5)
project_state(st) ==
    [i \in DOMAIN st |->
        LET p == ssdot_to_simstate(st[i], i)
        IN  [p EXCEPT !.psi = project_heading(p.psi)]]

\* relstate[i, j, 4] of _relative_state: to_circle(psi_j - psi_i)
relative_heading(psi_i, psi_j) == to_circle(fadd(psi_j, fmul(Num(-1), psi_i)))

\* ------------------------------------------------------------- collisions
\* cos and sin of a heading that is a whole number of quarter turns
cos(psi) ==
    LET q == (psi % (2 * PI)) \div (PI \div 2)
    IN  CASE q = 0 -> 1 [] q = 1 -> 0 [] q = 2 -> -1 [] q = 3 -> 0
sin(psi) ==
    LET q == (psi % (2 * PI)) \div (PI \div 2)
    IN  CASE q = 0 -> 0 [] q = 1 -> 1 [] q = 2 -> 0 [] q = 3 -> -1

\* state_to_polygon(x, length, width): corners [ll, lr, ur, ul], half units
state_to_polygon(x, length, width) ==
    LET px == Val(x.x)
        py == Val(x.y)
        c == cos(Val(x.psi))
        s == sin(Val(x.psi))
        lon == <<c, s>>
        lat == <<0 - s, c>>
        corner(a, b) == <<px + a * length * lon[1] + b * width * lat[1],
                          py + a * length * lon[2] + b * width * lat[2]>>
    IN  <<corner(-1, 1), corner(-1, -1), corner(1, -1), corner(1, 1)>>

SetMax(S) == CHOOSE m \in S : \A e \in S : e <= m
SetMin(S) == CHOOSE m \in S : \A e \in S : m <= e

\* Polygon.intersects for rectangles with axis-parallel sides: the closed
\* rectangles share a point (touching boundaries intersect)
intersects(p, q) ==
    LET xs(r) == {r[k][1] : k \in 1..4}
        ys(r) == {r[k][2] : k \in 1..4}
    IN  /\ SetMin(xs(p)) <= SetMax(xs(q)) /\ SetMin(xs(q)) <= SetMax(xs(p))
        /\ SetMin(ys(p)) <= SetMax(ys(q)) /\ SetMin(ys(q)) <= SetMax(ys(p))

\* torch.where(nni)[0]: the indices of the active vehicles, ascending
active_inds(x) ==
    LET F[k \in 0..Len(x)] ==
            IF k = 0 THEN <<>>
            ELSE IF ~isnan(x[k].x) THEN Append(F[k - 1], k) ELSE F[k - 1]
    IN  F[Len(x)]

\* states_to_polygons(x, lengths, widths) -> (vp, inds)
states_to_polygons(x, lengths, widths) ==
    LET inds == active_inds(x)
    IN  [vp |-> [k \in 1..Len(inds) |->
                    state_to_polygon(x[inds[k]], lengths[inds[k]], widths[inds[k]])],
         inds |-> inds]

\* the row / column of c_mat that belongs to the compacted index i: nni_t[i]
c_mat_index_compacted(inds, i) == i
c_mat_index(inds, i) == inds[i]

\* the cells set to 1 for an intersecting compacted pair (i, j):
\* c_mat[nni_t[i], nni_t[j]] and c_mat[nni_t[j], nni_t[i]]
c_mat_writes_one_way(inds, i, j) ==
    {<<c_mat_index(inds, i), c_mat_index(inds, j)>>}
c_mat_writes(inds, i, j) ==
    {<<c_mat_index(inds, i), c_mat_index(inds, j)>>,
     <<c_mat_index(inds, j), c_mat_index(inds, i)>>}

\* collision_matrix(x, lengths, widths) -> (nv0, nv0) matrix of 0 / 1
collision_matrix(x, lengths, widths) ==
    LET nv0 == Len(lengths)
        sp == states_to_polygons(x, lengths, widths)
        n == Len(sp.vp)
        hit == {p \in (1..n) \X (1..n) :
                    p[1] >= 2 /\ p[2] < p[1] /\ intersects(sp.vp[p[1]], sp.vp[p[2]])}
        ones == UNION {c_mat_writes(sp.inds, p[1], p[2]) : p \in hit}
    IN  [a \in 1..nv0, b \in 1..nv0 |-> IF <<a, b>> \in ones THEN 1 ELSE 0]

\* np.count_nonzero(cols)
count_nonzero(cols) == Cardinality({c \in DOMAIN cols : cols[c] # 0})

\* count_collisions(x, lengths, widths)
count_collisions_no_halving(x, lengths, widths) ==
    count_nonzero(collision_matrix(x, lengths, widths))
count_collisions(x, lengths, widths) ==
    count_nonzero(collision_matrix(x, lengths, widths)) \div 2

\* check_collisions(x, lengths, widths)
check_collisions(x, lengths, widths) == count_collisions(x, lengths, widths) > 0

\* count_collisions_trajectory(x, lengths, widths), x a sequence of T frames
count_collisions_trajectory(x, lengths, widths) ==
    LET nv0 == Len(lengths)
        cols[k \in 0..Len(x)] ==
            IF k = 0 THEN [a \in 1..nv0, b \in 1..nv0 |-> 0]
            ELSE LET m == collision_matrix(x[k], lengths, widths)
                 IN  [a \in 1..nv0, b \in 1..nv0 |-> cols[k - 1][a, b] + m[a, b]]
    IN  count_nonzero(cols[Len(x)]) \div 2

\* check_collisions_trajectory(x, lengths, widths): one flag per frame
check_collisions_trajectory(x, lengths, widths) ==
    [k \in 1..Len(x) |-> check_collisions(x[k], lengths, widths)]

\* t = minT + dt * ind
t(i) == MinT + DT * i

\* svt.state0: the arc state at minT, defined for the vehicles present then
svt_state0 ==
    [i \in Veh |-> IF svt_t0[i] <= MinT
                   THEN [s |-> svt_s0[i], v |-> svt_v0[i]] ELSE NanState]

Init ==
    /\ state = [i \in Veh |-> NanState]
    /\ ind = 0
    /\ exceeded = [i \in Veh |-> FALSE]
    /\ done = FALSE
    /\ stop_on_collision \in BOOLEAN
    /\ check_collisions_flag \in BOOLEAN
    /\ call = [op |-> "init", raised |-> "none"]
    /\ colcall = [fn |-> "none"]
    /\ hcall = [fn |-> "none"]

\* should_spawn = (t0 <= t) & ~exceeded & ~nns & free, with free all True
should_spawn_ignoring_exceeded(i, nns, exc, k) == svt_t0[i] <= t(k) /\ ~nns[i]
should_spawn(i, nns, exc, k) == svt_t0[i] <= t(k) /\ ~exc[i] /\ ~nns[i]

\* self.done = torch.all(self._exceeded); if collision and
\* self._stop_on_collision: self.done = True
episode_done_on_any_collision(exc, collision, stop) ==
    (\A i \in Veh : exc[i]) \/ collision
episode_done(exc, collision, stop) ==
    (\A i \in Veh : exc[i]) \/ (collision /\ stop)

\* step(action) run from the fields (st, k, exc, dn): the fields it leaves and
\* the record of the call.  The assertion fails before anything is written;
\* the exception of _next_state is raised after self._ind was incremented and
\* before any other field is written.
step_body(st, k, exc, dn, stop, check, action) ==
    IF dn
    THEN [ind |-> k, state |-> st, exceeded |-> exc, done |-> dn,
          call |-> [op |-> "step", raised |-> "assertion", state |-> st]]
    ELSE
    LET r == next_state(st, action)
    IN  IF r.raised
        THEN [ind |-> k + 1, state |-> st, exceeded |-> exc, done |-> dn,
              call |-> [op |-> "step", raised |-> "exception", state |-> st,
                        req |-> action]]
        ELSE
        LET nns == [i \in Veh |-> ~isnan(st[i].s)]
            exc1 == [i \in Veh |-> exc[i] \/ r.exceeded[i]]
            spawned == [i \in Veh |-> should_spawn(i, nns, exc1, k + 1)]
            st1 == [i \in Veh |->
                      IF spawned[i] THEN [s |-> svt_s0[i], v |-> svt_v0[i]]
                      ELSE r.next_state[i]]
            projstate == project_state(st1)
            collision ==
                IF stop \/ check
                THEN check_collisions(projstate, svt_lengths, svt_widths)
                ELSE FALSE
        IN  [ind |-> k + 1, state |-> st1, exceeded |-> exc1,
             done |-> episode_done(exc1, collision, stop),
             call |-> [op |-> "step", raised |-> "none", state |-> st,
                       req |-> action, next_state |-> r.next_state,
                       action |-> r.action, exceeded |-> r.exceeded,
                       spawned |-> spawned, collision |-> collision]]

\* step(action)
step(action) ==
    /\ done \/ ind < MaxInd
    /\ \E o \in {step_body(state, ind, exceeded, done, stop_on_collision,
                           check_collisions_flag, action)} :
           /\ ind' = o.ind
           /\ state' = o.state
           /\ exceeded' = o.exceeded
           /\ done' = o.done
           /\ call' = o.call
    /\ UNCHANGED <<stop_on_collision, check_collisions_flag, colcall, hcall>>

\* reset()
reset ==
    /\ state' = svt_state0
    /\ ind' = 0
    /\ exceeded' = [i \in Veh |-> FALSE]
    /\ done' = FALSE
    /\ call' = [op |-> "reset", raised |-> "none"]
    /\ UNCHANGED <<stop_on_collision, check_collisions_flag, colcall, hcall>>

\* ------------------------------------------------------------- collision calls
\* One (5,) pose: inactive (all NaN) or at (px, py) with heading psi
NanPose == [x |-> NaN, y |-> NaN, v |-> NaN, psi |-> NaN, psidot |-> NaN]
Pose(px, py, psi) ==
    [x |-> Num(px), y |-> Num(py), v |-> Num(0), psi |-> Num(psi), psidot |-> Num(0)]

\* poses of a frame: x in 0..MaxX, two lanes, headings east and north
PoseSet ==
    {NanPose} \cup {Pose(px, py, psi) :
                        px \in 0..MaxX, py \in {0, 3}, psi \in {0, PI \div 2}}
\* frames of three vehicles, and the footprints (lengths, widths) they come with
Frames == [1..3 -> PoseSet]
FootprintSet == { << <<2, 2, 2>>, <<1, 1, 1>> >>, << <<4, 2, 2>>, <<2, 1, 1>> >> }

\* frames of a trajectory of two vehicles on one lane
TrajPoseSet == {NanPose, Pose(0, 0, 0), Pose(2, 0, 0 - PI), Pose(6, 0, 0 - PI)}
TrajFrames == [1..2 -> TrajPoseSet]
TrajLengths == <<2, 2>>
TrajWidths == <<1, 1>>
Trajectories == UNION {[1..T -> TrajFrames] : T \in 0..MaxFrames}

\* One call per behaviour: the routines are pure, a call starts from no state.
\* collision_matrix, count_collisions and check_collisions on one frame
call_frame(x, lengths, widths) ==
    /\ colcall' = [fn |-> "frame", x |-> x, lengths |-> lengths, widths |-> widths,
                   c_mat |-> collision_matrix(x, lengths, widths),
                   ncols |-> count_collisions(x, lengths, widths),
                   col |-> check_collisions(x, lengths, widths)]
    /\ UNCHANGED <<simvars, hcall>>

\* count_collisions_trajectory and check_collisions_trajectory on T frames
call_trajectory(x) ==
    /\ colcall' = [fn |-> "trajectory", x |-> x,
                   lengths |-> TrajLengths, widths |-> TrajWidths,
                   ncols |-> count_collisions_trajectory(x, TrajLengths, TrajWidths),
                   cols |-> check_collisions_trajectory(x, TrajLengths, TrajWidths)]
    /\ UNCHANGED <<simvars, hcall>>

frame_calls ==
    /\ colcall.fn = "none"
    /\ \E x \in Frames, f \in FootprintSet : call_frame(x, f[1], f[2])

trajectory_calls ==
    /\ colcall.fn = "none"
    /\ \E x \in Trajectories : call_trajectory(x)

NextCollisions == frame_calls \/ trajectory_calls

\* ------------------------------------------------------------- heading calls
\* _project_state's wrap of a heading, and the wrap applied to its result
call_project_heading(psi) ==
    /\ hcall' = [fn |-> "project", psi |-> psi,
                 w |-> project_heading(Num(psi)),
                 ww |-> project_heading(project_heading(Num(psi)))]
    /\ UNCHANGED <<simvars, colcall>>

\* _relative_state's wrap of the difference of two projected headings
call_relative_heading(psi_i, psi_j) ==
    /\ hcall' = [fn |-> "relative", psi_i |-> psi_i, psi_j |-> psi_j,
                 w |-> relative_heading(project_heading(Num(psi_i)),
                                        project_heading(Num(psi_j))),
                 ww |-> to_circle(relative_heading(project_heading(Num(psi_i)),
                                                   project_heading(Num(psi_j))))]
    /\ UNCHANGED <<simvars, colcall>>

project_heading_calls ==
    /\ hcall.fn = "none"
    /\ \E psi \in (0 - MaxPsi)..MaxPsi : call_project_heading(psi)

relative_heading_calls ==
    /\ hcall.fn = "none"
    /\ \E psi_i, psi_j \in (0 - PI)..PI : call_relative_heading(psi_i, psi_j)

NextHeading == project_heading_calls \/ relative_heading_calls

\* ------------------------------------------------------------- rollouts
\* joint actions of an action profile: one out of bounds with the other
\* vehicle braking, NaN for one vehicle or the other
ProfileActions ==
    { <<Num(MaxAcc + ActOver), Num(MinAcc)>>, <<Num(0), NaN>>, <<NaN, Num(MaxAcc)>> }
\* (T, nv, adims) action profiles, and the batches given to a rollout: one
\* profile of any length, or two profiles of one tick
Profiles == UNION {[1..T -> ProfileActions] : T \in 0..MaxFrames}
Batches ==
    {<<p>> : p \in Profiles} \cup {<<p, q>> : p, q \in [1..1 -> ProfileActions]}

\* for iT in range(T): state, _, _ = self._next_state(state, action[iT]);
\* x[iT] = self._project_state(state): the arc states and the frames of one
\* profile, up to the exception of _next_state
propagate_single(st, profile) ==
    LET S[k \in 0..Len(profile)] ==
            IF k = 0 THEN [raised |-> FALSE, arc |-> <<>>, x |-> <<>>]
            ELSE IF S[k - 1].raised THEN S[k - 1]
            ELSE LET r == next_state(IF k = 1 THEN st ELSE S[k - 1].arc[k - 1],
                                     profile[k])
                 IN  IF r.raised THEN [raised |-> TRUE, arc |-> <<>>, x |-> <<>>]
                     ELSE [raised |-> FALSE,
                           arc |-> Append(S[k - 1].arc, r.next_state),
                           x |-> Append(S[k - 1].x, project_state(r.next_state))]
    IN  S[Len(profile)]

\* for iT in range(T): s, _, _ = self._next_state_batch(states[iT], actions[iT]);
\* states[iT + 1] = s, for one batch element; frames 1..T are projected
propagate_batch(st, profile) ==
    LET S[k \in 0..Len(profile)] ==
            IF k = 0 THEN st
            ELSE next_state_batch(S[k - 1], profile[k]).next_state
    IN  [raised |-> FALSE,
         arc |-> [k \in 1..Len(profile) |-> S[k]],
         x |-> [k \in 1..Len(profile) |-> project_state(S[k])]]

\* propagate_action_profile(actions) run from self._state = st: the field it
\* leaves and what it returns.  Each profile starts from self._state.clone().
propagate_action_profile_in_place(st, actions) ==
    LET outs == [b \in 1..Len(actions) |-> propagate_single(st, actions[b])]
        raised == \E b \in 1..Len(actions) : outs[b].raised
        last == outs[Len(outs)].arc
    IN  [state |-> IF raised \/ last = <<>> THEN st ELSE last[Len(last)],
         raised |-> raised,
         arc |-> IF raised THEN <<>> ELSE [b \in 1..Len(actions) |-> outs[b].arc],
         x |-> IF raised THEN <<>> ELSE [b \in 1..Len(actions) |-> outs[b].x]]
propagate_action_profile_body(st, actions) ==
    LET outs == [b \in 1..Len(actions) |-> propagate_single(st, actions[b])]
        raised == \E b \in 1..Len(actions) : outs[b].raised
    IN  [state |-> st,
         raised |-> raised,
         arc |-> IF raised THEN <<>> ELSE [b \in 1..Len(actions) |-> outs[b].arc],
         x |-> IF raised THEN <<>> ELSE [b \in 1..Len(actions) |-> outs[b].x]]

\* propagate_action_profile_vectorized(actions): the rollouts start from
\* self._state.repeat(B, T+1, 1, 1)
propagate_action_profile_vectorized_body(st, actions) ==
    LET outs == [b \in 1..Len(actions) |-> propagate_batch(st, actions[b])]
    IN  [state |-> st,
         raised |-> FALSE,
         arc |-> [b \in 1..Len(actions) |-> outs[b].arc],
         x |-> [b \in 1..Len(actions) |-> outs[b].x]]

\* check_future_collisions(actions): collisions[iB] =
\* torch.any(check_collisions_trajectory(states[iB], lengths, widths))
check_future_collisions_body(st, actions) ==
    LET o == propagate_action_profile_body(st, actions)
    IN  [state |-> o.state, raised |-> o.raised, arc |-> o.arc, x |-> o.x,
         collisions |->
            [b \in 1..Len(o.x) |->
                \E k \in 1..Len(o.x[b]) :
                    check_collisions_trajectory(o.x[b], svt_lengths, svt_widths)[k]]]

\* what a rollout call leaves in call: the field it started from, its
\* argument and what it returned
rollout_record(op, st, actions, o) ==
    [op |-> op, raised |-> IF o.raised THEN "exception" ELSE "none",
     state |-> st, actions |-> actions, out |-> o]

\* a rollout is made between two calls of step or reset
RolloutOps ==
    {"propagate_action_profile", "propagate_action_profile_vectorized",
     "check_future_collisions"}
BetweenSteps == call.op \in {"init", "step", "reset"}

propagate_action_profile(actions) ==
    /\ \E o \in {propagate_action_profile_body(state, actions)} :
          /\ state' = o.state
          /\ call' = rollout_record("propagate_action_profile", state, actions, o)
    /\ UNCHANGED <<ind, exceeded, done, stop_on_collision, check_collisions_flag,
                   colcall, hcall>>

propagate_action_profile_vectorized(actions) ==
    /\ \E o \in {propagate_action_profile_vectorized_body(state, actions)} :
          /\ state' = o.state
          /\ call' = rollout_record("propagate_action_profile_vectorized",
                                    state, actions, o)
    /\ UNCHANGED <<ind, exceeded, done, stop_on_collision, check_collisions_flag,
                   colcall, hcall>>

check_future_collisions(actions) ==
    /\ \E o \in {check_future_collisions_body(state, actions)} :
          /\ state' = o.state
          /\ call' = rollout_record("check_future_collisions", state, actions, o)
    /\ UNCHANGED <<ind, exceeded, done, stop_on_collision, check_collisions_flag,
                   colcall, hcall>>

\* _next_state and _next_state_batch applied to the simulator's arc state and
\* one joint action; both are functions of their arguments
call_next_state(action) ==
    /\ call' = [op |-> "_next_state", raised |-> "none", state |-> state,
                req |-> action,
                single |-> next_state(state, action),
                batch |-> next_state_batch(state, action)]
    /\ UNCHANGED <<state, ind, exceeded, done, stop_on_collision,
                   check_collisions_flag, colcall, hcall>>

propagate_action_profile_calls ==
    /\ BetweenSteps
    /\ \E actions \in Batches : propagate_action_profile(actions)

propagate_action_profile_vectorized_calls ==
    /\ BetweenSteps
    /\ \E actions \in Batches : propagate_action_profile_vectorized(actions)

check_future_collisions_calls ==
    /\ BetweenSteps
    /\ \E actions \in Batches : check_future_collisions(actions)

next_state_calls ==
    /\ BetweenSteps
    /\ \E action \in ProfileActions : call_next_state(action)

\* ------------------------------------------------------------- properties
\* the last call was a step that returned / that _next_state aborted
StepReturned == call.op = "step" /\ call.raised = "none"
StepRaised == call.op = "step" /\ call.raised = "exception"

\* the bound of [min_acc, max_acc] nearest to a, or a itself inside the interval
Nearest(a) == IF a < MinAcc THEN MinAcc ELSE IF a > MaxAcc THEN MaxAcc ELSE a

\* C1: in a single step, for every vehicle with a defined arc state and a
\* defined action, exceeded is true exactly when s' = s + 0.5*dt*(v' + v) is
\* strictly greater than the vehicle's max arc length; then both components of
\* its next arc state are NaN, and otherwise (s' = max included) both are
\* defined.  Example: max = 100, s = 99, v = 5, dt = 1, action = 0 gives
\* exceeded and a NaN next state (s and max in half units: 198, 200).
C1_ExceededIffPastEnd ==
    /\ StepReturned =>
         \A i \in Veh :
            (~isnan(call.state[i].s) /\ ~isnan(call.state[i].v) /\ ~isnan(call.req[i])) =>
               LET v == Val(call.state[i].v)
                   vn == Max2(0, v + Val(call.action[i]) * DT)
                   sn == Val(call.state[i].s) + DT * (vn + v)
               IN  /\ call.exceeded[i] <=> (sn > Val(svt_smax[i]))
                   /\ call.exceeded[i] =>
                        isnan(call.next_state[i].s) /\ isnan(call.next_state[i].v)
                   /\ ~call.exceeded[i] =>
                        call.next_state[i] = [s |-> Num(sn), v |-> Num(vn)]
    /\ euler_step([s |-> Num(198), v |-> Num(5)], Num(0), Num(200))
         = [next_state |-> NanState, exceeded |-> TRUE]

\* C1 witness: a step in which one vehicle runs past its track end and another
\* lands exactly on its track end and stays defined
C1_Witness ==
    /\ StepReturned
    /\ \E i, j \in Veh :
          /\ ~isnan(call.state[i].s) /\ ~isnan(call.req[i]) /\ call.exceeded[i]
          /\ ~isnan(call.state[j].s) /\ ~isnan(call.req[j]) /\ ~call.exceeded[j]
          /\ call.next_state[j].s = svt_smax[j]

\* C2: a step call that gets past the done assertion aborts with the exception
\* exactly when some vehicle has a defined arc position and a NaN action,
\* whatever the other vehicles' states and actions are.
C2_RaisesIffNanAction ==
    (call.op = "step" /\ call.raised # "assertion") =>
        (call.raised = "exception" <=>
            \E i \in Veh : ~isnan(call.state[i].s) /\ isnan(call.req[i]))

\* C2 witness: the call aborted although another vehicle with a defined state
\* had a defined action
C2_Witness ==
    /\ StepRaised
    /\ \E i, j \in Veh :
          /\ ~isnan(call.state[i].s) /\ isnan(call.req[i])
          /\ ~isnan(call.state[j].s) /\ ~isnan(call.req[j])

\* C3: a defined arc speed is never negative: in the simulator state after any
\* sequence of step and reset calls, in the next state returned by the single
\* step, and in the next state the batched step computes from the simulator
\* state for any requested action.
C3_NonNegativeSpeed ==
    /\ \A i \in Veh : ~isnan(state[i].v) => Val(state[i].v) >= 0
    /\ StepReturned =>
         \A i \in Veh : ~isnan(call.next_state[i].v) => Val(call.next_state[i].v) >= 0
    /\ \A a \in ReqActions :
         \A i \in Veh :
            LET nv1 == next_state_batch(state, a).next_state[i].v
            IN  ~isnan(nv1) => Val(nv1) >= 0

\* C3 witness: a step in which v + a*dt was negative and the next speed is 0
C3_Witness ==
    /\ StepReturned
    /\ \E i \in Veh :
          /\ ~isnan(call.state[i].v)
          /\ Val(call.state[i].v) + Val(call.action[i]) * DT < 0
          /\ call.next_state[i].v = Num(0)

C5_ForcedZeroAction ==
    StepReturned =>
        \A i \in Veh :
            isnan(call.state[i].s) =>
                /\ call.action[i] = Num(0)
                /\ call.next_state[i] = NanState
                /\ ~call.exceeded[i]

\* the last collision call was on one frame / on a trajectory
FrameCall == colcall.fn = "frame"
TrajectoryCall == colcall.fn = "trajectory"

\* vehicle i of frame x is active; the footprint of an active vehicle
Active(x, i) == ~isnan(x[i].x)
Footprint(x, lengths, widths, i) == state_to_polygon(x[i], lengths[i], widths[i])

\* the unordered pairs i < j of active vehicles of a frame whose footprints intersect
CollidingPairs(x, lengths, widths) ==
    {p \in (1..Len(lengths)) \X (1..Len(lengths)) :
        /\ p[1] < p[2]
        /\ Active(x, p[1]) /\ Active(x, p[2])
        /\ intersects(Footprint(x, lengths, widths, p[1]),
                      Footprint(x, lengths, widths, p[2]))}

\* C6: for every frame the matrix returned by collision_matrix is symmetric
\* and its diagonal is zero.
C6_SymmetricZeroDiagonal ==
    FrameCall =>
        \A i, j \in 1..Len(colcall.lengths) :
            /\ colcall.c_mat[i, j] = colcall.c_mat[j, i]
            /\ colcall.c_mat[i, i] = 0

\* C6 witness: a frame with an inactive vehicle and a colliding pair
C6_Witness ==
    /\ FrameCall
    /\ \E i \in 1..Len(colcall.lengths) : ~Active(colcall.x, i)
    /\ \E i, j \in 1..Len(colcall.lengths) : i # j /\ colcall.c_mat[i, j] # 0

\* C7: an inactive vehicle has an all-zero row and column, and the entries of
\* the active vehicles sit at their original indices: for i # j, entry [i, j]
\* is non-zero iff vehicles i and j are both active and their footprints
\* intersect.
C7_OriginalIndices ==
    FrameCall =>
        \A i, j \in 1..Len(colcall.lengths) :
            /\ ~Active(colcall.x, i) =>
                  colcall.c_mat[i, j] = 0 /\ colcall.c_mat[j, i] = 0
            /\ i # j =>
                  (colcall.c_mat[i, j] # 0 <=>
                      /\ Active(colcall.x, i) /\ Active(colcall.x, j)
                      /\ intersects(
                            Footprint(colcall.x, colcall.lengths, colcall.widths, i),
                            Footprint(colcall.x, colcall.lengths, colcall.widths, j)))

\* C7 witness: vehicle 1 is inactive and vehicles 2 and 3 collide, so the
\* compacted indices (1, 2) differ from the original ones (2, 3)
C7_Witness ==
    /\ FrameCall
    /\ ~Active(colcall.x, 1)
    /\ colcall.c_mat[2, 3] # 0 /\ colcall.c_mat[3, 2] # 0
    /\ colcall.c_mat[1, 2] = 0

\* C8: count_collisions returns the number of unordered pairs of active
\* vehicles whose footprints intersect, half the number of non-zero matrix
\* entries; check_collisions is true iff that count is positive; a frame with
\* at most one active vehicle gives 0 and False.
C8_CountsPairs ==
    FrameCall =>
        /\ colcall.ncols =
              Cardinality(CollidingPairs(colcall.x, colcall.lengths, colcall.widths))
        /\ 2 * colcall.ncols = count_nonzero(colcall.c_mat)
        /\ colcall.col <=> (colcall.ncols > 0)
        /\ Cardinality({i \in 1..Len(colcall.lengths) : Active(colcall.x, i)}) <= 1 =>
              (colcall.ncols = 0 /\ ~colcall.col)

\* C8 witness: three active vehicles of which exactly two pairs collide
C8_Witness ==
    /\ FrameCall
    /\ \A i \in 1..Len(colcall.lengths) : Active(colcall.x, i)
    /\ colcall.ncols = 2 /\ colcall.col

\* the sum over the frames of the number of colliding pairs of each frame
IncidentsPerFrameSum(x, lengths, widths) ==
    LET S[k \in 0..Len(x)] ==
            IF k = 0 THEN 0
            ELSE S[k - 1] + Cardinality(CollidingPairs(x[k], lengths, widths))
    IN  S[Len(x)]

\* C9: count_collisions_trajectory returns the total number of collision
\* incidents: the sum over all frames of the number of colliding unordered
\* pairs in that frame, so a pair that overlaps at k frames contributes k.
C9_TotalIncidents ==
    TrajectoryCall =>
        colcall.ncols = IncidentsPerFrameSum(colcall.x, colcall.lengths, colcall.widths)

\* the last heading call
HeadingCall == hcall.fn # "none"

\* C10 as stated: the wrapped heading lies in (-pi, pi] (-pi never produced,
\* pi kept) and wrapping is idempotent.
C10_WrapInOpenClosed ==
    HeadingCall =>
        /\ Val(hcall.w) > 0 - PI /\ Val(hcall.w) <= PI
        /\ hcall.ww = hcall.w

\* C10 amended: the wrapped heading lies in [-pi, pi) (pi is mapped to -pi, -pi
\* is kept) and wrapping is idempotent.
C10_WrapInClosedOpen ==
    HeadingCall =>
        /\ Val(hcall.w) >= 0 - PI /\ Val(hcall.w) < PI
        /\ hcall.ww = hcall.w

\* C10 witness: the heading pi was wrapped, to -pi
C10_Witness ==
    /\ hcall.fn = "project"
    /\ hcall.psi = PI
    /\ hcall.w = Num(0 - PI)

\* the last call was a rollout that returned; _next_state and
\* _next_state_batch were applied to one state and action
RolloutReturned == call.op \in RolloutOps /\ call.raised = "none"
NextStateCall == call.op = "_next_state"

\* every vehicle with a defined state has a defined action
CompleteAction(st, action) ==
    \A i \in Veh : ~isnan(st[i].s) => ~isnan(action[i])

\* C11: _next_state_batch has the per-element semantics of _next_state: for
\* every state and action in which each vehicle with a defined state has a
\* defined action, the next arc state, the applied action and the exceeded
\* flag of every vehicle are those of the single step; so
\* propagate_action_profile_vectorized and propagate_action_profile produce
\* the same arc-state trajectories.
C11_BatchedEqualsSingle ==
    /\ (NextStateCall /\ CompleteAction(call.state, call.req)) =>
          /\ ~call.single.raised
          /\ call.batch.next_state = call.single.next_state
          /\ call.batch.action = call.single.action
          /\ call.batch.exceeded = call.single.exceeded
    /\ (call.op = "propagate_action_profile" /\ call.raised = "none") =>
          LET v == propagate_action_profile_vectorized_body(call.state, call.actions)
          IN  v.arc = call.out.arc /\ v.x = call.out.x

\* what C11 holds for: the next arc state and the exceeded flags agree for
\* every vehicle, the applied action agrees for every vehicle whose requested
\* action is defined, and the trajectories agree
C11_SameNextState ==
    /\ (NextStateCall /\ CompleteAction(call.state, call.req)) =>
          /\ ~call.single.raised
          /\ call.batch.next_state = call.single.next_state
          /\ call.batch.exceeded = call.single.exceeded
          /\ \A i \in Veh :
                ~isnan(call.req[i]) => call.batch.action[i] = call.single.action[i]
    /\ (call.op = "propagate_action_profile" /\ call.raised = "none") =>
          LET v == propagate_action_profile_vectorized_body(call.state, call.actions)
          IN  v.arc = call.out.arc /\ v.x = call.out.x

\* C12: vehicles never move backward: for every vehicle that is active both
\* before and after a step, its arc position after the step is at least its
\* arc position before it.
C12_NeverBackward ==
    StepReturned =>
        \A i \in Veh :
            (~isnan(call.state[i].s) /\ ~isnan(state[i].s)) =>
                Val(state[i].s) >= Val(call.state[i].s)

\* C12 witness: a stopped vehicle was asked to brake and stayed where it was
C12_Witness ==
    /\ StepReturned
    /\ \E i \in Veh :
          /\ call.state[i].v = Num(0)
          /\ ~isnan(call.action[i]) /\ Val(call.action[i]) < 0
          /\ ~isnan(state[i].s)
          /\ state[i].s = call.state[i].s

\* the transitions of the vehicles in one step call
C13_StepTransitions ==
    call'.op = "step" =>
        \A i \in Veh :
            /\ exceeded[i] => exceeded'[i] /\ state'[i] = NanState
            /\ (isnan(state[i].s) /\ ~isnan(state'[i].s)) =>
                  /\ state'[i] = [s |-> svt_s0[i], v |-> svt_v0[i]]
                  /\ svt_t0[i] <= t(ind')
                  /\ ~exceeded[i] /\ ~exceeded'[i]
            /\ (~isnan(state[i].s) /\ isnan(state'[i].s)) =>
                  ~exceeded[i] /\ exceeded'[i]

\* C13: track exhaustion is terminal within an episode: a vehicle whose
\* accumulated exceeded flag is set has an undefined arc state, a later step
\* never clears the flag and never spawns the vehicle again although
\* t0 <= t; the only transitions of a vehicle in a step are inactive -> active
\* (set to exactly (s0, v0), at a step where t0 <= t, the vehicle inactive
\* before the step and not exceeded) and active -> exceeded, so a vehicle is
\* spawned at most once per episode.
C13_ExhaustionTerminal ==
    /\ [](\A i \in Veh : exceeded[i] => state[i] = NanState)
    /\ [][C13_StepTransitions]_vars

\* C13 witness: a step returned for a vehicle that had exceeded its track in
\* an earlier step; its spawn time has passed and it was not spawned
C13_Witness ==
    /\ StepReturned
    /\ \E i \in Veh :
          /\ exceeded[i] /\ ~call.exceeded[i]
          /\ isnan(call.state[i].s)
          /\ svt_t0[i] <= t(ind)
          /\ ~call.spawned[i]
          /\ state[i] = NanState

\* the frame the last step left collides
FrameCollides == check_collisions(project_state(state), svt_lengths, svt_widths)

\* a step call made when done is set is rejected and writes nothing
C14_RejectedWhenDone ==
    (done /\ call'.op = "step") =>
        /\ call'.raised = "assertion"
        /\ UNCHANGED <<state, ind, exceeded, done>>

\* C14: after every step that returned, done is true iff every vehicle's
\* accumulated exceeded flag is set or stop_on_collision is enabled and the
\* frame the step produced (after spawning) collides; with only
\* check_collisions enabled the collision is reported in info and does not set
\* done; once done is set every further step is rejected by the assertion
\* until reset; reset sets done to false, the tick index to 0 and every
\* exceeded flag to false.
C14_DoneIff ==
    /\ [](StepReturned =>
            /\ done <=> \/ \A i \in Veh : exceeded[i]
                        \/ stop_on_collision /\ FrameCollides
            /\ (stop_on_collision \/ check_collisions_flag) =>
                  (call.collision <=> FrameCollides))
    /\ [](call.op = "reset" =>
            ~done /\ ind = 0 /\ \A i \in Veh : ~exceeded[i])
    /\ [][C14_RejectedWhenDone]_vars

\* C14 witness: with only check_collisions enabled a step reported a collision
\* and the episode went on
C14_Witness ==
    /\ StepReturned
    /\ ~stop_on_collision /\ check_collisions_flag
    /\ call.collision
    /\ ~done

\* C14, the other cases: a step ended the episode on a collision with a
\* vehicle still on its track, and a step was rejected afterwards
C14_WitnessRejected ==
    /\ call.op = "step" /\ call.raised = "assertion"
    /\ done /\ stop_on_collision
    /\ \E i \in Veh : ~exceeded[i]

\* C15: an aborted step (a NaN action for a vehicle with a defined state, or
\* done already set) leaves the arc-state array, the exceeded flags, the done
\* flag and the tick index (hence t = minT + dt*ind) as they were.
C15_AbortLeavesState ==
    [][(call'.op = "step" /\ call'.raised # "none") =>
          UNCHANGED <<state, exceeded, done, ind>>]_vars

\* what C15 holds for: the rejected call writes nothing, the aborted call
\* writes nothing but the tick index
C15_AbortKeepsAllButTick ==
    [][(call'.op = "step" /\ call'.raised # "none") =>
          /\ UNCHANGED <<state, exceeded, done>>
          /\ call'.raised = "assertion" => ind' = ind
          /\ call'.raised = "exception" => ind' = ind + 1]_vars

\* a rollout call writes no field, and a step made after it is the step
\* that would have been made without it
C16_RolloutWritesNothing ==
    call'.op \in RolloutOps =>
        /\ UNCHANGED <<state, ind, exceeded, done>>
        /\ \A action \in ProfileActions :
              step_body(state', ind', exceeded', done', stop_on_collision',
                        check_collisions_flag', action)
                = step_body(state, ind, exceeded, done, stop_on_collision,
                            check_collisions_flag, action)

\* C16: propagate_action_profile, propagate_action_profile_vectorized and
\* check_future_collisions, for any action profiles and made anywhere between
\* step calls, leave the arc-state array, the exceeded flags, the done flag
\* and the tick index as they were, so a later step returns what it would
\* have returned without them; and a rollout spawns no vehicle: a vehicle
\* inactive at the start of the rollout is inactive in every rollout frame.
C16_RolloutsAreHypothetical ==
    /\ [][C16_RolloutWritesNothing]_vars
    /\ [](RolloutReturned =>
            \A b \in 1..Len(call.out.arc) :
                \A k \in 1..Len(call.out.arc[b]) :
                    \A i \in Veh :
                        isnan(call.state[i].s) =>
                            /\ call.out.arc[b][k][i] = NanState
                            /\ isnan(call.out.x[b][k][i].x))

\* C16 witness: a rollout of two ticks moved one vehicle along its track and
\* left the simulator's arc state where it was, and the other vehicle, whose
\* spawn time has come by the next tick, is inactive in both frames
C16_Witness ==
    /\ RolloutReturned
    /\ state = call.state
    /\ Len(call.out.arc) = 1 /\ Len(call.out.arc[1]) = 2
    /\ \E i, j \in Veh :
          /\ ~isnan(state[i].s) /\ ~isnan(call.out.arc[1][2][i].s)
          /\ Val(call.out.arc[1][2][i].s) > Val(state[i].s)
          /\ isnan(state[j].s) /\ ~exceeded[j] /\ svt_t0[j] <= t(ind + 1)
          /\ call.out.arc[1][1][j] = NanState /\ call.out.arc[1][2][j] = NanState

\* ------------------------------------------------------------- specifications
Next ==
    \/ \E action \in ReqActions : step(action)
    \/ reset

Spec == Init /\ [][Next]_vars
\* the pure routines are called on a freshly constructed default simulator
InitCalls == Init /\ ~stop_on_collision /\ ~check_collisions_flag
SpecCollisions == InitCalls /\ [][NextCollisions]_vars
SpecHeading == InitCalls /\ [][NextHeading]_vars

\* step and reset with rollouts and integrator calls between them
NextRollout ==
    \/ \E action \in ProfileActions : step(action)
    \/ reset
    \/ propagate_action_profile_calls
    \/ propagate_action_profile_vectorized_calls
    \/ check_future_collisions_calls
    \/ next_state_calls
SpecRollout == Init /\ [][NextRollout]_vars
====
